---- MODULE Spec2Model ----
(***************************************************************************)
(* Model of the CAEN ROOT post-processing pipeline of ida-devices:         *)
(*   src/caen-rootpostprocessing.py  (main run loop, ledger CSV, sink)     *)
(*   src/caen-roottimestamps.py      (same timestamp arithmetic)           *)
(*                                                                         *)
(* Floating point.  The scripts compute absolute event times in IEEE-754   *)
(* binary64 (numpy float64).  TLC has 32-bit integers, so the model uses a *)
(* binary floating-point format of the same shape with a MantissaBits-bit  *)
(* significand (binary64: 53) and round-to-nearest-even, and a second of   *)
(* TicksPerSecond device ticks (the device: 10^12 ps).  A float is carried *)
(* as the integer  value * Scale;  every operation computes the exact      *)
(* result and rounds it to MantissaBits significant bits, as the hardware  *)
(* does.                                                                   *)
(***************************************************************************)
EXTENDS Integers, Sequences, FiniteSets, Bags, TLC

\* ------------------------------------------------------------------ bounds
MantissaBits == 8      \* significand width of the modelled float (binary64: 53)
TicksPerSecond == 100  \* device ticks per second (the device: 10^12)
NumFiles == 2          \* ROOT files in the RAW folder
MaxRuns == 2           \* runs of main() over one ledger (crashes and resumes)
BatchSize == 2         \* rows per execute_values batch (the scripts: 1000)
MaxVanish == 1         \* files removed from the folder behind the run's back

\* ------------------------------------------------------- float arithmetic
RECURSIVE Pow2(_)
Pow2(n) == IF n = 0 THEN 1 ELSE 2 * Pow2(n - 1)

\* The carrier: a float x is the integer x * Scale.  FracBits is wide enough
\* that one tick divided by TicksPerSecond is a normal number.
FracBits == MantissaBits + 6
Scale == Pow2(FracBits)

\* round half to even of n / d, n >= 0, d > 0
RoundHalfEven(n, d) ==
    LET q == n \div d
        r == n % d
    IN  IF 2 * r < d THEN q
        ELSE IF 2 * r > d THEN q + 1
        ELSE IF q % 2 = 0 THEN q ELSE q + 1

\* the spacing (in carrier units) of the floats around n / d
RECURSIVE Granule(_, _, _)
Granule(n, d, g) ==
    IF n < Pow2(MantissaBits) * d * g THEN g ELSE Granule(n, d, 2 * g)

\* the float nearest to the exact value n / d (carrier units), n >= 0
RoundFloat(n, d) ==
    LET g == Granule(n, d, 1)
    IN  g * RoundHalfEven(n, d * g)

ToFloat(i) == RoundFloat(i * Scale, 1)       \* integer -> float64 conversion
FAdd(a, b) == RoundFloat(a + b, 1)           \* a + b
FSub(a, b) == RoundFloat(a - b, 1)           \* a - b, a >= b
FMulInt(a, n) == RoundFloat(a * n, 1)        \* a * float(n), n exact
FDivInt(a, n) == RoundFloat(a, n)            \* a / float(n), n exact
FFloor(a) == (a \div Scale) * Scale          \* np.floor, a >= 0
FInt(a) == a \div Scale                      \* int(), truncation, a >= 0

\* ------------------------------------------------------------ the disk
Files == 1..NumFiles

Ev(t, e, es) == [ts |-> t, e |-> e, es |-> es]

\* Contents of a ROOT file as tree.iterate yields it: a sequence of chunks,
\* each a sequence of events (Timestamp in ticks, Energy, EnergyShort).
ContentTwoChunks == << <<Ev(0, 100, 40), Ev(1, 50, 50), Ev(130, 0, 0)>>,
                       <<Ev(275, 80, 20)>> >>
ContentOneChunk == << <<Ev(42, 10, 4)>> >>
ContentNoData == << <<>> >>
\* a malformed file: the Timestamp of its first event is negative
ContentMalformed == << <<Ev(0 - 5, 10, 4), Ev(3, 20, 5)>> >>

\* The folders the model runs on: which content each file has (the folder
\* "nodata-last" has no settings.xml, the others have one).
Layouts == {"data", "nodata-first", "nodata-last"}
\* the folders main() of caen-rootpostprocessing.py is run on: in "malformed"
\* the first file is the malformed one
MainLayouts == Layouts \cup {"malformed"}

\* settings.xml: absent, or its modification time (a float, in seconds)
NoSettings == 0 - 1
SettingsMtimes == {40 * Scale + Scale \div 2}
\* start times an operator may type at the prompt (whole seconds)
UserTimes == {17 * Scale}

VARIABLES
    disk,          \* [f -> "orig" | "renamed" | "gone"]: the name f is found under
    layout,        \* which of the Layouts the RAW folder is
    settings,      \* settings.xml mtime, or NoSettings
    csv,           \* processed_files.csv: [exists, rows]; rows of [filename, processed]
    sink,          \* the event table: bag of committed rows
    meta,          \* the root_files table: files with a committed metadata row
    runs,          \* runs of main() started so far
    outcome,       \* how the last run ended
    pc,            \* position of the running main(), "stopped" when none runs
    df,            \* the DataFrame of main()
    idx,           \* 1-based position of the for loop over df
    rename_files,  \* the operator's answer to the rename prompt
    epoch,         \* acquisition_start_timestamp
    conn,          \* the connection: "none", "ok", "aborted", "lost"
    txn,           \* rows executed on conn and not yet committed
    attempt,       \* connect_to_db: the loop variable
    ret,           \* connect_to_db: where the caller continues
    chunk_number,  \* process_root_file: chunks iterated
    total_events,  \* process_root_file: events inserted
    abs_times,     \* process_root_file: abs_times of the last non-empty chunk
    submitted,     \* rows handed to execute_values by this call (history)
    success        \* process_root_file's first return value

env == <<disk, layout, settings>>
store == <<csv, sink, meta>>
proc == <<df, idx, rename_files, epoch, conn, txn, attempt, ret, chunk_number,
          total_events, abs_times, submitted, success>>
vars == <<disk, layout, settings, csv, sink, meta, runs, outcome, pc, df, idx,
          rename_files, epoch, conn, txn, attempt, ret, chunk_number,
          total_events, abs_times, submitted, success>>

\* The state of the other programs of the repository, which run on their own
\* (they have their own specifications below); main() of
\* caen-rootpostprocessing.py neither reads nor writes it.
VARIABLES
    server,         \* the database server: "up" or "down"
    db_cloud,       \* [collector -> the pglogger handle its loop holds]
    wrote,          \* [collector -> its latest pass logged its sample]
    passes,         \* [collector -> passes of its loop so far, modulo PassWrap]
    txt_files,      \* the .txt files of the run folder: a sequence of files,
                    \* each a sequence of lines
    PSD_THRESHOLDS, \* psd-thresholds.csv as loaded: [psd, energy] of the channel
    observed,       \* what the operator last read from processed_files.csv
    fiducial,       \* the two fiducial parameter files: [gammas, neutrons]
    channel_input,  \* the channel number the operator typed: a digit string
    processed_files, \* caen-rootprocessing.py: the paths in its dictionary
    returned,       \* [file -> times its processing returned True] (history)
    table_name      \* the table the rows of a file are written to

collectors == <<server, db_cloud, wrote, passes>>
timestamps == <<txt_files, PSD_THRESHOLDS, observed, fiducial, channel_input>>
beside == <<processed_files, returned, table_name>>
others == <<server, db_cloud, wrote, passes, txt_files, PSD_THRESHOLDS, observed,
            fiducial, channel_input, processed_files, returned, table_name>>
allvars == <<vars, others>>

CollectorsOff ==
    server = "up" /\ db_cloud = <<>> /\ wrote = <<>> /\ passes = <<>>
TimestampsOff ==
    /\ txt_files = <<>> /\ PSD_THRESHOLDS = <<>> /\ observed = <<>>
    /\ fiducial = <<>> /\ channel_input = <<>>
BesideOff == processed_files = {} /\ returned = <<>> /\ table_name = <<>>

\* what file f holds
content(f) ==
    CASE layout = "data" ->
           IF f % 2 = 1 THEN ContentTwoChunks ELSE ContentOneChunk
      [] layout = "nodata-first" ->
           IF f = 1 THEN ContentNoData ELSE ContentTwoChunks
      [] layout = "malformed" ->
           IF f = 1 THEN ContentMalformed ELSE ContentOneChunk
      [] OTHER ->
           IF f = NumFiles THEN ContentNoData ELSE ContentOneChunk

\* ------------------------------------------------- the ledger (pandas)
\* A cell of the 'processed' column in memory is a Python bool ("bTrue",
\* "bFalse") or a str ("sTrue", "sFalse", "sFailed"); in the CSV it is text.
Fname(f, n) == [f |-> f, name |-> n]
Exists(fname) == disk[fname.f] = fname.name

\* df.to_csv: str() of each cell
CellToCsv(v) ==
    CASE v \in {"bTrue", "sTrue"} -> "True"
      [] v \in {"bFalse", "sFalse"} -> "False"
      [] OTHER -> "Failed"
ToCsv(d) == [i \in DOMAIN d |-> [filename |-> d[i].filename,
                                 processed |-> CellToCsv(d[i].processed)]]

\* pd.read_csv: a column holding only True/False is parsed as bool; any other
\* value leaves the whole column as strings.
ReadCsv(rows) ==
    LET allBool == \A i \in DOMAIN rows : rows[i].processed \in {"True", "False"}
        cell(t) == IF allBool
                   THEN (IF t = "True" THEN "bTrue" ELSE "bFalse")
                   ELSE (CASE t = "True" -> "sTrue"
                           [] t = "False" -> "sFalse"
                           [] OTHER -> "sFailed")
    IN  [i \in DOMAIN rows |-> [filename |-> rows[i].filename,
                                processed |-> cell(rows[i].processed)]]

\* truth value of a cell: `not row['processed']` is `~Truthy(cell)`
Truthy(v) == v # "bFalse"
\* df['processed'] == False, elementwise: a str never equals False
EqFalse(v) == v = "bFalse"
\* mutant: the loop takes every row, whatever its state
NotProcessedAlways(v) == TRUE
NotProcessed(v) == ~Truthy(v)
Unprocessed(d) == {i \in DOMAIN d : EqFalse(d[i].processed)}

\* --------------------------------------------- process_root_file: rows
MicrosPerSecond == 10   \* resolution of datetime (the scripts: 10^6 us)

\* arrays["Timestamp"] / 1e12
Timestamps(ts) ==
    IF ts < 0 THEN 0 - FDivInt(ToFloat(0 - ts), TicksPerSecond)
    ELSE FDivInt(ToFloat(ts), TicksPerSecond)
\* timestamps + acquisition_start_timestamp
AbsTime(ts, start) == FAdd(Timestamps(ts), start)
\* mutant: the whole seconds are not subtracted before scaling
SubsecondPsNoFloor(abs_time) == FInt(FMulInt(abs_time, TicksPerSecond))
\* int((abs_time - np.floor(abs_time)) * 1e12)
SubsecondPs(abs_time) ==
    FInt(FMulInt(FSub(abs_time, FFloor(abs_time)), TicksPerSecond))
\* datetime.fromtimestamp(abs_time): rounded half-even to the microsecond
FromTimestamp(abs_time) == RoundHalfEven(abs_time * MicrosPerSecond, Scale)
\* np.where(energy != 0, (energy - energy_short) / energy, 0.0)
Psp(e, es) == IF e # 0 THEN RoundFloat((e - es) * Scale, e) ELSE 0

\* one element of event_rows; src tags the event the row was built from
EventRow(f, c, k, ev, start) ==
    LET abs_time == AbsTime(ev.ts, start)
    IN  [src |-> <<f, c, k>>,
         time |-> FromTimestamp(abs_time),
         channels |-> <<Psp(ev.e, ev.es), ev.e>>,
         ps |-> SubsecondPs(abs_time)]

EventRows(f, c, start) ==
    [k \in DOMAIN content(f)[c] |-> EventRow(f, c, k, content(f)[c][k], start)]

\* ----------------------------------------- insert_many_timestamps_to_db
Min(a, b) == IF a < b THEN a ELSE b

\* mutant: the slice ends one row early
BatchShort(rows, i, batch_size) ==
    SubSeq(rows, i + 1, Min(i + batch_size - 1, Len(rows)))
\* rows[i:i+batch_size], i 0-based
Batch(rows, i, batch_size) ==
    SubSeq(rows, i + 1, Min(i + batch_size, Len(rows)))

\* range(0, len(rows), batch_size)
BatchStarts(rows, batch_size) ==
    {i \in 0..(Len(rows) - 1) : i % batch_size = 0}

\* the rows passed to execute_values by the first n batches, in order
RECURSIVE Executed(_, _, _)
Executed(rows, n, batch_size) ==
    IF n = 0 THEN <<>>
    ELSE Executed(rows, n - 1, batch_size)
             \o Batch(rows, (n - 1) * batch_size, batch_size)

NumBatches(rows, batch_size) == Cardinality(BatchStarts(rows, batch_size))

RECURSIVE SeqToBag(_)
SeqToBag(s) ==
    IF s = <<>> THEN EmptyBag ELSE SetToBag({Head(s)}) (+) SeqToBag(Tail(s))

\* ------------------------------------------------------------- main()
max_retries == 3

RECURSIVE SortedSeq(_)
SortedSeq(S) ==
    IF S = {} THEN <<>>
    ELSE LET m == CHOOSE x \in S : \A y \in S : x <= y
         IN  <<m>> \o SortedSeq(S \ {m})

\* glob of the RAW folder for the chosen file types, sorted by file number
Enumerate(file_types) ==
    LET want == CASE file_types = "1" -> {"orig"}
                  [] file_types = "2" -> {"renamed"}
                  [] OTHER -> {"orig", "renamed"}
        fs == SortedSeq({f \in Files : disk[f] \in want})
    IN  [i \in DOMAIN fs |-> Fname(fs[i], disk[fs[i]])]

\* pd.DataFrame({'filename': files, 'processed': [False] * len(files)})
NewLedger(files) ==
    [i \in DOMAIN files |-> [filename |-> files[i], processed |-> "bFalse"]]

\* the values written into the 'processed' cell (writing the str 'Failed'
\* into a bool column makes it an object column; the other cells stay bools)
MarkDone == "bTrue"        \* df.at[index, 'processed'] = True
\* mutant: a file whose processing failed is marked as done
MarkFailedAsDone == "bTrue"
MarkFailed == "sFailed"    \* df.at[index, 'processed'] = 'Failed'
MarkMissing == "bTrue"     \* file not found: df.at[index, 'processed'] = True

\* mutant: the CSV is written before the row in flight is marked
SavedBeforeMark(d) ==
    [i \in DOMAIN d |->
        IF i = idx /\ i \in DOMAIN csv.rows THEN csv.rows[i] ELSE ToCsv(d)[i]]
\* df.to_csv(csv_path, index=False)
Saved(d) == ToCsv(d)

Init ==
    /\ disk = [f \in Files |-> "orig"]
    /\ layout \in MainLayouts
    /\ settings \in (IF layout = "nodata-last" THEN {NoSettings} ELSE SettingsMtimes)
    /\ csv = [exists |-> FALSE, rows |-> <<>>]
    /\ sink = EmptyBag
    /\ meta = {}
    /\ runs = 0
    /\ outcome = "none"
    /\ pc = "stopped"
    /\ df = <<>>
    /\ idx = 0
    /\ rename_files = FALSE
    /\ epoch = 0
    /\ conn = "none"
    /\ txn = EmptyBag
    /\ attempt = 0
    /\ ret = "none"
    /\ chunk_number = 0
    /\ total_events = 0
    /\ abs_times = <<>>
    /\ submitted = <<>>
    /\ success = FALSE
    /\ CollectorsOff
    /\ TimestampsOff
    /\ BesideOff

\* the process ends (return, sys.exit, uncaught exception, kill): its memory
\* and its connection, with whatever was not committed, are gone
Halt(how) ==
    /\ pc' = "stopped"
    /\ outcome' = how
    /\ df' = <<>>
    /\ idx' = 0
    /\ rename_files' = FALSE
    /\ epoch' = 0
    /\ conn' = "none"
    /\ txn' = EmptyBag
    /\ attempt' = 0
    /\ ret' = "none"
    /\ chunk_number' = 0
    /\ total_events' = 0
    /\ abs_times' = <<>>
    /\ submitted' = <<>>
    /\ success' = FALSE

\* main() up to the first connect_to_db(): the prompts, then the ledger is
\* loaded from the CSV or created from the folder
Begin(d, rn) ==
    /\ df' = d
    /\ rename_files' = rn
    /\ pc' = "connect"
    /\ ret' = "epoch"
    /\ attempt' = 0
    /\ outcome' = "running"
    /\ UNCHANGED <<idx, epoch, conn, txn, chunk_number, total_events,
                   abs_times, submitted, success>>

StartRun ==
    /\ UNCHANGED others
    /\ pc = "stopped"
    /\ runs < MaxRuns
    /\ runs' = runs + 1
    /\ UNCHANGED <<env, sink, meta>>
    /\ \E rn \in BOOLEAN, file_types \in {"1", "2", "3"} :
         IF csv.exists
         THEN LET d == ReadCsv(csv.rows)
              IN  /\ UNCHANGED csv
                  /\ IF Unprocessed(d) = {} THEN Halt("returned") ELSE Begin(d, rn)
         ELSE LET files == Enumerate(file_types)
              IN  IF files = <<>>
                  THEN Halt("returned") /\ UNCHANGED csv
                  ELSE /\ csv' = [exists |-> TRUE, rows |-> Saved(NewLedger(files))]
                       /\ Begin(NewLedger(files), rn)

\* mutant: one more pass than max_retries
CanRetryOnceMore(a) == a < max_retries
\* if attempt < max_retries - 1: sleep and go on, else sys.exit(1)
CanRetry(a) == a < max_retries - 1

\* connect_to_db(): one pass of its for loop
Connect ==
    /\ UNCHANGED others
    /\ pc = "connect"
    /\ UNCHANGED <<env, store, runs>>
    /\ \E ok \in BOOLEAN :
         IF ok
         THEN /\ conn' = "ok"
              /\ txn' = EmptyBag
              /\ pc' = ret
              /\ ret' = "none"
              /\ attempt' = 0
              /\ UNCHANGED <<outcome, df, idx, rename_files, epoch, chunk_number,
                             total_events, abs_times, submitted, success>>
         ELSE IF CanRetry(attempt)
              THEN /\ attempt' = attempt + 1
                   /\ UNCHANGED <<outcome, pc, df, idx, rename_files, epoch, conn,
                                  txn, ret, chunk_number, total_events, abs_times,
                                  submitted, success>>
              ELSE Halt("exit")

\* get_acquisition_start(df)
GetAcquisitionStart ==
    /\ UNCHANGED others
    /\ pc = "epoch"
    /\ UNCHANGED <<env, store, runs>>
    /\ IF ~Exists(df[1].filename)
       THEN Halt("exit")
       ELSE /\ \E t \in (IF settings = NoSettings THEN UserTimes ELSE {settings}) :
                 epoch' = t
            /\ pc' = "loop"
            /\ idx' = 1
            /\ UNCHANGED <<outcome, df, rename_files, conn, txn, attempt, ret,
                           chunk_number, total_events, abs_times, submitted, success>>

\* for index, row in df.iterrows(): if not row['processed']
Loop ==
    /\ UNCHANGED others
    /\ pc = "loop"
    /\ UNCHANGED <<env, store, runs>>
    /\ IF idx > Len(df)
       THEN Halt("returned")
       ELSE /\ IF NotProcessed(df[idx].processed)
               THEN pc' = "heartbeat" /\ idx' = idx
               ELSE pc' = "loop" /\ idx' = idx + 1
            /\ UNCHANGED <<outcome, df, rename_files, epoch, conn, txn, attempt,
                           ret, chunk_number, total_events, abs_times, submitted,
                           success>>

\* the SELECT 1 heartbeat and its except clause.  On a connection whose
\* transaction failed and was not rolled back ("aborted") the SELECT raises
\* psycopg2's InFailedSqlTransaction, an InternalError: the clause catches
\* only OperationalError and InterfaceError, so the exception leaves main().
Heartbeat ==
    /\ UNCHANGED others
    /\ pc = "heartbeat"
    /\ UNCHANGED <<env, store, runs>>
    /\ \E alive \in BOOLEAN :
         IF conn = "aborted"
         THEN Halt("raised")
         ELSE IF conn = "ok" /\ alive
              THEN /\ pc' = "exists"
                   /\ UNCHANGED <<outcome, df, idx, rename_files, epoch, conn, txn,
                                  attempt, ret, chunk_number, total_events,
                                  abs_times, submitted, success>>
              ELSE /\ pc' = "connect"
                   /\ ret' = "exists"
                   /\ attempt' = 0
                   /\ conn' = "lost"
                   /\ txn' = EmptyBag
                   /\ UNCHANGED <<outcome, df, idx, rename_files, epoch,
                                  chunk_number, total_events, abs_times, submitted,
                                  success>>

\* if os.path.exists(file_path): ... else: the file is marked and saved
CheckExists ==
    /\ UNCHANGED others
    /\ pc = "exists"
    /\ UNCHANGED <<env, store, runs>>
    /\ IF Exists(df[idx].filename)
       THEN pc' = "open" /\ df' = df
       ELSE pc' = "save" /\ df' = [df EXCEPT ![idx].processed = MarkMissing]
    /\ UNCHANGED <<outcome, idx, rename_files, epoch, conn, txn, attempt, ret,
                   chunk_number, total_events, abs_times, submitted, success>>

\* ------------------------------------------------- process_root_file()
CurFile == df[idx].filename.f

\* uproot.open and the search for the tree; any exception returns False
OpenFile ==
    /\ UNCHANGED others
    /\ pc = "open"
    /\ UNCHANGED <<env, store, runs>>
    /\ \E readable \in BOOLEAN :
         IF readable /\ Exists(df[idx].filename)
         THEN /\ pc' = "iterate"
              /\ chunk_number' = 0
              /\ total_events' = 0
              /\ abs_times' = <<>>
              /\ submitted' = <<>>
              /\ success' = FALSE
         ELSE /\ pc' = "result"
              /\ success' = FALSE
              /\ UNCHANGED <<chunk_number, total_events, abs_times, submitted>>
    /\ UNCHANGED <<outcome, df, idx, rename_files, epoch, conn, txn, attempt, ret>>

\* mutant: an error raised by execute_values leaves the connection as it was
ConnStaysOk(how) == "ok"
\* the connection after execute_values or commit raised: its transaction is
\* aborted (an error reported by the server) or the connection is lost
ConnAfter(how) == how

\* one pass of `for arrays in tree.iterate(...)`, insert included; after the
\* last chunk, the statements that follow the loop
Iterate ==
    /\ UNCHANGED others
    /\ pc = "iterate"
    /\ UNCHANGED <<env, csv, meta, runs>>
    /\ UNCHANGED <<outcome, df, idx, rename_files, epoch, attempt, ret>>
    /\ IF chunk_number < Len(content(CurFile))
       THEN LET c == chunk_number + 1
                rows == EventRows(CurFile, c, epoch)
                nb == NumBatches(rows, BatchSize)
            IN  /\ chunk_number' = c
                /\ IF rows = <<>>
                   THEN \* empty chunk: continue
                        UNCHANGED <<pc, sink, conn, txn, total_events, abs_times,
                                    submitted, success>>
                   ELSE /\ abs_times' = [k \in DOMAIN rows |->
                                AbsTime(content(CurFile)[c][k].ts, epoch)]
                        /\ \/ \* every batch executed, then conn.commit()
                              /\ submitted' = submitted \o Executed(rows, nb, BatchSize)
                              /\ sink' = sink (+) txn
                                           (+) SeqToBag(Executed(rows, nb, BatchSize))
                              /\ txn' = EmptyBag
                              /\ total_events' = total_events + Len(rows)
                              /\ UNCHANGED <<pc, conn, success>>
                           \/ \* execute_values number n raises, or the commit
                              \* does (n = nb + 1): the except clause returns False
                              \E n \in 1..(nb + 1), how \in {"aborted", "lost"} :
                                /\ n = nb + 1 => how = "lost"
                                /\ submitted' = submitted
                                     \o Executed(rows, Min(n, nb), BatchSize)
                                /\ txn' = IF how = "lost" THEN EmptyBag
                                          ELSE txn (+) SeqToBag(
                                                  Executed(rows, n - 1, BatchSize))
                                /\ conn' = ConnAfter(how)
                                /\ success' = FALSE
                                /\ pc' = "result"
                                /\ UNCHANGED <<sink, total_events>>
       ELSE /\ success' = (total_events # 0)
            /\ pc' = "result"
            /\ UNCHANGED <<sink, conn, txn, chunk_number, total_events, abs_times,
                           submitted>>

\* min(abs_times), max(abs_times) after the loop: abs_times is the array the
\* last non-empty pass of the loop left behind
SeqMin(s) == CHOOSE x \in {s[i] : i \in DOMAIN s} : \A i \in DOMAIN s : x <= s[i]
SeqMax(s) == CHOOSE x \in {s[i] : i \in DOMAIN s} : \A i \in DOMAIN s : x >= s[i]
start_time == SeqMin(abs_times)
end_time == SeqMax(abs_times)
\* datetime.fromtimestamp(t).strftime('%Y%m%d_%H%M%S'): the whole second
Strftime(t) == FromTimestamp(t) \div MicrosPerSecond
start_time_str == Strftime(start_time)
end_time_str == Strftime(end_time)

\* main() after process_root_file returned: the rename, or the Failed mark
Result ==
    /\ UNCHANGED others
    /\ pc = "result"
    /\ UNCHANGED <<layout, settings, store, runs>>
    /\ IF success
       THEN IF rename_files
            THEN \E ok \in BOOLEAN :
                   IF ok /\ Exists(df[idx].filename)
                   THEN /\ disk' = [disk EXCEPT ![CurFile] = "renamed"]
                        /\ pc' = "meta"
                        /\ UNCHANGED <<outcome, proc>>
                   ELSE \* OSError: sys.exit(1)
                        Halt("exit") /\ UNCHANGED disk
            ELSE /\ pc' = "meta"
                 /\ UNCHANGED <<disk, outcome, proc>>
       ELSE /\ df' = [df EXCEPT ![idx].processed = MarkFailed]
            /\ pc' = "save"
            /\ UNCHANGED <<disk, outcome, idx, rename_files, epoch, conn, txn,
                           attempt, ret, chunk_number, total_events, abs_times,
                           submitted, success>>

\* insert_root_file_to_db, then the Done mark
Metadata ==
    /\ UNCHANGED others
    /\ pc = "meta"
    /\ UNCHANGED <<env, csv, sink, runs>>
    /\ LET new_file_path ==
               IF rename_files THEN Fname(CurFile, "renamed") ELSE df[idx].filename
       IN  \E ok \in BOOLEAN :
             IF ok /\ conn = "ok"
             THEN /\ meta' = meta \cup {new_file_path}
                  /\ df' = [df EXCEPT ![idx] = [filename |-> new_file_path,
                                                processed |-> MarkDone]]
                  /\ pc' = "save"
                  /\ UNCHANGED <<outcome, idx, rename_files, epoch, conn, txn,
                                 attempt, ret, chunk_number, total_events,
                                 abs_times, submitted, success>>
             ELSE \* the exception leaves main()
                  Halt("raised") /\ UNCHANGED meta

\* df.to_csv after a mark; the loop goes on with the next row
Save ==
    /\ UNCHANGED others
    /\ pc = "save"
    /\ csv' = [exists |-> TRUE, rows |-> Saved(df)]
    /\ idx' = idx + 1
    /\ pc' = "loop"
    /\ chunk_number' = 0
    /\ total_events' = 0
    /\ abs_times' = <<>>
    /\ submitted' = <<>>
    /\ success' = FALSE
    /\ UNCHANGED <<env, sink, meta, runs, outcome, df, rename_files, epoch, conn,
                   txn, attempt, ret>>

\* --------------------------------------------------------- environment
\* a file is removed from the RAW folder
Vanish ==
    /\ UNCHANGED others
    /\ \E f \in Files :
         /\ disk[f] # "gone"
         /\ Cardinality({g \in Files : disk[g] = "gone"}) < MaxVanish
         /\ disk' = [disk EXCEPT ![f] = "gone"]
    /\ UNCHANGED <<layout, settings, store, runs, outcome, pc, proc>>

\* the process is killed (power loss, Ctrl-C, kill)
Crash ==
    /\ UNCHANGED others
    /\ pc # "stopped"
    /\ Halt("crash")
    /\ UNCHANGED <<env, store, runs>>

Next ==
    \/ StartRun
    \/ Connect
    \/ GetAcquisitionStart
    \/ Loop
    \/ Heartbeat
    \/ CheckExists
    \/ OpenFile
    \/ Iterate
    \/ Result
    \/ Metadata
    \/ Save
    \/ Vanish
    \/ Crash

Spec == Init /\ [][Next]_vars

TypeOK ==
    /\ pc \in {"stopped", "connect", "epoch", "loop", "heartbeat", "exists",
               "open", "iterate", "result", "meta", "save"}
    /\ conn \in {"none", "ok", "aborted", "lost"}
    /\ outcome \in {"none", "running", "returned", "exit", "raised", "crash"}
    /\ runs \in 0..MaxRuns

\* the idle state of main(), which the other programs do not touch
MainOff ==
    /\ disk = [f \in Files |-> "orig"]
    /\ layout = "data"
    /\ settings = NoSettings
    /\ csv = [exists |-> FALSE, rows |-> <<>>]
    /\ sink = EmptyBag
    /\ meta = {}
    /\ runs = 0
    /\ outcome = "none"
    /\ pc = "stopped"
    /\ df = <<>>
    /\ idx = 0
    /\ rename_files = FALSE
    /\ epoch = 0
    /\ conn = "none"
    /\ txn = EmptyBag
    /\ attempt = 0
    /\ ret = "none"
    /\ chunk_number = 0
    /\ total_events = 0
    /\ abs_times = <<>>
    /\ submitted = <<>>
    /\ success = FALSE

\* ============================================ the unattended collectors
\* korad-read-powersupply.py, mks-925-vacuum.py and ortec-maestro-gammas.py:
\* three processes that log samples to one database through pglogger (an
\* installed package).  A handle is None, or a pglogger object whose
\* connection is "live" or "dead" (lost with the server).  Reading the
\* instruments is taken to succeed.
Collectors == {"korad", "mks", "ortec"}
PassWrap == 2

\* init_db(): pglogger(creds), or None when the constructor raises
init_db == IF server = "up" THEN "live" ELSE "None"
\* reconnect_db(): init_db() again
reconnect_db == init_db

\* The results db_cloud.log(...) may have on handle h: <<success, h after>>.
\* Whether a pglogger object whose connection was lost reconnects by itself
\* is the package's business: both answers are allowed.
Log(h) ==
    IF server = "down" THEN {<<FALSE, "dead">>}
    ELSE IF h = "live" THEN {<<TRUE, "live">>}
    ELSE {<<TRUE, "live">>, <<FALSE, "dead">>}

\* the processes start with init_db(), whatever the server's state
InitCollectors ==
    /\ MainOff
    /\ TimestampsOff
    /\ BesideOff
    /\ server \in {"up", "down"}
    /\ db_cloud = [c \in Collectors |-> init_db]
    /\ wrote = [c \in Collectors |-> FALSE]
    /\ passes = [c \in Collectors |-> 0]

\* the sample is read and written to the local CSV file: one more pass
Pass(c) == passes' = [passes EXCEPT ![c] = (passes[c] + 1) % PassWrap]

\* korad-read-powersupply.py, one pass of `while True`: on None the call
\* db_cloud.log raises AttributeError, which `except Exception` only logs
KoradLoop ==
    /\ UNCHANGED <<vars, timestamps, beside, server>>
    /\ Pass("korad")
    /\ IF db_cloud["korad"] = "None"
       THEN /\ wrote' = [wrote EXCEPT !["korad"] = FALSE]
            /\ UNCHANGED db_cloud
       ELSE \E r \in Log(db_cloud["korad"]) :
              /\ wrote' = [wrote EXCEPT !["korad"] = r[1]]
              /\ db_cloud' = [db_cloud EXCEPT !["korad"] =
                                 IF r[1] THEN r[2] ELSE reconnect_db]

\* mks-925-vacuum.py, one pass of `while True`: the except clause reconnects
MksLoop ==
    /\ UNCHANGED <<vars, timestamps, beside, server>>
    /\ Pass("mks")
    /\ IF db_cloud["mks"] = "None"
       THEN /\ wrote' = [wrote EXCEPT !["mks"] = FALSE]
            /\ db_cloud' = [db_cloud EXCEPT !["mks"] = reconnect_db]
       ELSE \E r \in Log(db_cloud["mks"]) :
              /\ wrote' = [wrote EXCEPT !["mks"] = r[1]]
              /\ db_cloud' = [db_cloud EXCEPT !["mks"] =
                                 IF r[1] THEN r[2] ELSE reconnect_db]

\* ortec-maestro-gammas.py, process_spe_file for one new file: the handle is
\* the one start_observer bound into the lambda; `db_cloud = reconnect_db()`
\* assigns the parameter of this call only.  Without a handle at its start
\* the script has ended.
process_spe_file ==
    /\ db_cloud["ortec"] # "None"   \* start_observer: sys.exit(1) on None
    /\ UNCHANGED <<vars, timestamps, beside, server>>
    /\ Pass("ortec")
    /\ \E r \in Log(db_cloud["ortec"]) :
         /\ wrote' = [wrote EXCEPT !["ortec"] = r[1]]
         /\ db_cloud' = [db_cloud EXCEPT !["ortec"] = r[2]]

\* the database or the network goes away: every open connection is lost
ServerDown ==
    /\ server = "up"
    /\ server' = "down"
    /\ db_cloud' = [c \in Collectors |->
                       IF db_cloud[c] = "live" THEN "dead" ELSE db_cloud[c]]
    /\ UNCHANGED <<vars, timestamps, beside, wrote, passes>>

ServerUp ==
    /\ server = "down"
    /\ server' = "up"
    /\ UNCHANGED <<vars, timestamps, beside, db_cloud, wrote, passes>>

NextCollectors ==
    \/ KoradLoop
    \/ MksLoop
    \/ process_spe_file
    \/ ServerDown
    \/ ServerUp

\* The loops run forever (while True with a sleep; the watchdog observer
\* calls the handler for every new file): each pass is taken again and again.
FairCollectors ==
    /\ InitCollectors
    /\ [][NextCollectors]_allvars
    /\ WF_allvars(KoradLoop)
    /\ WF_allvars(MksLoop)
    /\ WF_allvars(process_spe_file)

\* ============================================ caen-roottimestamps.py
\* The variant that takes the acquisition start from the run's .txt file,
\* sorts the events into neutrons and gammas and keeps its own
\* processed_files.csv.  It uses disk, layout, settings, csv, sink, runs,
\* outcome, pc, df, idx, epoch and success as main() above does.

\* ---------------------------------- get_acquisition_start_from_txt
\* A line of a .txt file is a sequence of tokens; a token is the literal
\* "Start time = ", a field that one strptime directive matches (with the
\* numbers it stands for), or other text.
Tok(k, v) == [k |-> k, v |-> v]
PrefixTok == Tok("Start time = ", <<>>)
TextTok == Tok("text", <<>>)
\* "Start time = Tue Feb 25 19:<m>:<s> 2025"
StartLine(m, s) ==
    <<PrefixTok, Tok("%a", <<2>>), Tok("%b", <<2>>), Tok("%d", <<25>>),
      Tok("%H:%M:%S", <<19, m, s>>), Tok("%Y", <<2025>>)>>
OtherLine == <<TextTok, TextTok>>

\* the .txt files a run folder may hold
TxtGood == << <<OtherLine, StartLine(54, 42)>> >>
TxtLater == << <<OtherLine, StartLine(55, 10)>> >>
TxtNone == <<>>
TxtMalformed == << <<OtherLine, <<PrefixTok, TextTok>> >> >>
TxtDoubled == << <<OtherLine, <<PrefixTok>> \o StartLine(54, 42)>> >>
TxtThirdLine == << <<OtherLine, OtherLine, StartLine(54, 42)>> >>
TxtChoices == {TxtGood, TxtLater, TxtNone, TxtMalformed, TxtDoubled, TxtThirdLine}
\* how the .txt files may change while the script runs: the DAQ writes the
\* run information of a new acquisition, or a file without it is completed
TxtChanges == {<<TxtGood, TxtLater>>, <<TxtMalformed, TxtGood>>}

\* no acquisition start: the function raised
Unresolved == 0 - 1

\* second_line.startswith("Start time = ")
StartsWith(line) == Len(line) >= 1 /\ line[1] = PrefixTok
\* second_line.replace("Start time = ", ""): every occurrence goes
Replace(line) == SelectSeq(line, LAMBDA t : t # PrefixTok)
\* datetime.strptime(datetime_str, "%a %b %d %H:%M:%S %Y") succeeds
Parses(str) ==
    /\ Len(str) = 5
    /\ [i \in 1..5 |-> str[i].k] = <<"%a", "%b", "%d", "%H:%M:%S", "%Y">>
    /\ str[1].v[1] \in 0..6
    /\ str[2].v[1] \in 1..12
    /\ str[3].v[1] \in 1..31
    /\ str[4].v[1] \in 0..23 /\ str[4].v[2] \in 0..59 /\ str[4].v[3] \in 0..61
\* its result
Strptime(str) ==
    [Y |-> str[5].v[1], b |-> str[2].v[1], d |-> str[3].v[1],
     H |-> str[4].v[1], M |-> str[4].v[2], S |-> str[4].v[3]]
\* dt.timestamp().  The model's clock counts the seconds from 2025-02-25
\* 19:54:00 local time (Unix time is that plus a constant a float64 carries
\* exactly); the .txt files above are all of that day.
Timestamp(dt) == ToFloat(((dt.H - 19) * 60 + (dt.M - 54)) * 60 + dt.S)

get_acquisition_start_from_txt(files) ==
    IF files = <<>> THEN Unresolved                 \* no .txt file
    ELSE LET lines == files[1]                      \* txt_files[0]
         IN  IF Len(lines) < 2 THEN Unresolved      \* not enough lines
             ELSE IF ~StartsWith(lines[2]) THEN Unresolved
             ELSE IF ~Parses(Replace(lines[2])) THEN Unresolved
             ELSE Timestamp(Strptime(Replace(lines[2])))

\* ------------------------------------------ process_root_file: the rows
\* tree.arrays(...): the whole tree, all chunks in order
RECURSIVE Concat(_)
Concat(chunks) ==
    IF chunks = <<>> THEN <<>> ELSE Head(chunks) \o Concat(Tail(chunks))
Tree(f) == Concat(content(f))

\* df["PSP"] = (df['Energy'] - df['EnergyShort']) / df['Energy']: 0/0 is NaN
\* (the files hold no event with Energy 0 and EnergyShort above 0)
NaN == 2 * Scale
PSP(ev) == IF ev.e = 0 THEN NaN ELSE RoundFloat((ev.e - ev.es) * Scale, ev.e)
\* float comparisons: any comparison with NaN is False
Gt(a, b) == a # NaN /\ b # NaN /\ a > b
Lt(a, b) == a # NaN /\ b # NaN /\ a < b

\* psd-thresholds.csv for the channel: psd-threshold, energy-threshold
Thresholds(psd, energy) == [psd |-> psd, energy |-> energy]
\* 0.5 with no energy threshold, or 0.6 with one of 60
ThresholdChoices ==
    {Thresholds(RoundFloat(Scale, 2), 0), Thresholds(RoundFloat(3 * Scale, 5), 60)}

\* dfn = dfn[dfn["PSP"] > psd_threshold]
InDfn(ev, psd_threshold) == Gt(PSP(ev), psd_threshold)
\* dfg = dfg[dfg["PSP"] < psd_threshold]
InDfg(ev, psd_threshold) == Lt(PSP(ev), psd_threshold)
\* above_threshold_mask = dfn["Energy"] >= energy_threshold
AboveThreshold(ev, energy_threshold) == ev.e >= energy_threshold

\* ------------------------------------------ the channel of a file
\* A file path, as far as the pattern CH(\d) can tell its pieces apart: the
\* letters "CH", single digits, other text.  The files the scripts enumerate
\* are RAW/*_CH<channel_input>@*.root.
ChTok == Tok("CH", <<>>)
Digit(d) == Tok("digit", <<d>>)
FilePath(digits) ==
    <<TextTok, ChTok>> \o [i \in DOMAIN digits |-> Digit(digits[i])] \o <<TextTok>>

\* re.search(r'CH(\d)', file_path).group(1): the one digit after the
\* leftmost "CH" that a digit follows; <<>> when the pattern is not found
RECURSIVE get_channel_number_from_filename(_)
get_channel_number_from_filename(file_path) ==
    IF Len(file_path) < 2 THEN <<>>
    ELSE IF file_path[1] = ChTok /\ file_path[2].k = "digit"
         THEN <<file_path[2].v[1]>>
         ELSE get_channel_number_from_filename(Tail(file_path))

\* int() of a digit string
RECURSIVE ToInt(_)
ToInt(digits) ==
    IF digits = <<>> THEN 0
    ELSE 10 * ToInt(SubSeq(digits, 1, Len(digits) - 1)) + digits[Len(digits)]

\* channel_number_int of the files of the run
channel_number_int == ToInt(get_channel_number_from_filename(FilePath(channel_input)))

\* ------------------------------------------ the fiducial curves
\* np.exp(-q) for a float 0 <= q <= 1: the alternating series
\* 1 - q + q^2/2 - ..., summed until its terms vanish, then rounded
RECURSIVE Series(_, _, _)
Series(q, t, k) ==
    IF t = 0 THEN 0 ELSE t - Series(q, (t * q) \div (Scale * k), k + 1)
ExpNeg(q) == RoundFloat(Series(q, Scale, 1), 1)

\* a * b of two floats
FMul(a, b) == RoundFloat(a * b, Scale)

\* the parameters of one channel: p[1] a whole number, the others floats
Params(p0, p1, p2, p3) == [p0 |-> p0, p1 |-> p1, p2 |-> p2, p3 |-> p3]
\* p[0] * np.exp(-x / p[1]) + p[2] * x + p[3], x = Energy.astype(float)
fiducial_curve(x, p) ==
    FAdd(FAdd(FMul(p.p0, ExpNeg(FDivInt(ToFloat(x), p.p1))), FMulInt(p.p2, x)),
         p.p3)

\* a fiducial parameter file: absent, or its rows by channel
NoFile == [exists |-> FALSE, params |-> <<>>]
ParamFile(chs, p) == [exists |-> TRUE, params |-> [c \in chs |-> p]]
\* 0.2 exp(-E/100) + 0.3  and  0.4 exp(-E/100) + E/1000 + 0.4
GammaParams == Params(RoundFloat(Scale, 5), 100, 0, RoundFloat(3 * Scale, 10))
NeutronParams ==
    Params(RoundFloat(2 * Scale, 5), 100, RoundFloat(Scale, 1000),
           RoundFloat(2 * Scale, 5))
Fiducial(g, n) == [gammas |-> g, neutrons |-> n]
NoFiducial == Fiducial(NoFile, NoFile)

\* os.path.exists of both files, then the channel is looked up in both
use_fiducial_curves ==
    /\ fiducial.gammas.exists
    /\ fiducial.neutrons.exists
    /\ channel_number_int \in DOMAIN fiducial.gammas.params
    /\ channel_number_int \in DOMAIN fiducial.neutrons.params
fiducial_params_gammas == fiducial.gammas.params[channel_number_int]
fiducial_params_neutrons == fiducial.neutrons.params[channel_number_int]

gamma_up_values(ev) == fiducial_curve(ev.e, fiducial_params_gammas)
neutron_up_values(ev) == fiducial_curve(ev.e, fiducial_params_neutrons)
\* mutant: no upper curve for the neutrons
AboveGammaCurve(ev) == Gt(PSP(ev), gamma_up_values(ev))
\* dfn[dfn["PSP"] > gamma_up_values], then dfn[dfn["PSP"] < neutron_up_values]
InDfnCurves(ev) ==
    Gt(PSP(ev), gamma_up_values(ev)) /\ Lt(PSP(ev), neutron_up_values(ev))
\* dfg[dfg["PSP"] < gamma_up_values]
InDfgCurves(ev) == Lt(PSP(ev), gamma_up_values(ev))

\* the events left in dfn and in dfg
Neutron(ev, psd_threshold) ==
    IF use_fiducial_curves THEN InDfnCurves(ev) ELSE InDfn(ev, psd_threshold)
Gamma(ev, psd_threshold) ==
    IF use_fiducial_curves THEN InDfgCurves(ev) ELSE InDfg(ev, psd_threshold)

\* (time_value, [1.0], subsecond_ps) for the table of one particle type;
\* src tags the event the row was built from
TsRow(particle_type, f, i, start) ==
    LET abs_time == AbsTime(Tree(f)[i].ts, start)
        time_floor == FFloor(abs_time)
    IN  [src |-> <<f, i>>,
         table |-> particle_type,
         time |-> FInt(time_floor),
         channels |-> <<Scale>>,
         ps |-> FInt(FMulInt(FSub(abs_time, time_floor), TicksPerSecond))]

neutron_rows(f, start, th) ==
    {TsRow("neutron", f, i, start) :
        i \in {j \in DOMAIN Tree(f) : /\ Neutron(Tree(f)[j], th.psd)
                                      /\ AboveThreshold(Tree(f)[j], th.energy)}}
gamma_rows(f, start, th) ==
    {TsRow("gamma", f, i, start) :
        i \in {j \in DOMAIN Tree(f) : Gamma(Tree(f)[j], th.psd)}}

\* ------------------------------------------------------------- main()
\* the variables of caen-rootpostprocessing.py this script has no use for
unused == <<meta, rename_files, conn, txn, attempt, ret, chunk_number,
            total_events, abs_times, submitted>>

Unread == [read |-> FALSE, rows |-> <<>>]

\* The configurations the script runs under: the thresholds of the channel,
\* the fiducial parameter files and the channel of the files.
Config(th, fid, ch) == [th |-> th, fid |-> fid, ch |-> ch]
ThresholdConfigs == {Config(th, NoFiducial, <<0>>) : th \in ThresholdChoices}
HalfAbove60 == Thresholds(RoundFloat(Scale, 2), 60)
FiducialConfigs ==
    {Config(HalfAbove60, NoFiducial, <<0>>),
     Config(HalfAbove60,
            Fiducial(ParamFile({0}, GammaParams), ParamFile({0}, NeutronParams)),
            <<0>>),
     Config(HalfAbove60, Fiducial(ParamFile({0}, GammaParams), NoFile), <<0>>),
     Config(HalfAbove60,
            Fiducial(ParamFile({0}, GammaParams), ParamFile({1}, NeutronParams)),
            <<0>>),
     Config(HalfAbove60,
            Fiducial(ParamFile({1}, GammaParams), ParamFile({1}, NeutronParams)),
            <<1, 2>>)}

InitTs ==
    /\ disk = [f \in Files |-> "orig"]
    /\ layout \in Layouts
    /\ settings \in (IF layout = "nodata-last" THEN {NoSettings} ELSE SettingsMtimes)
    /\ csv = [exists |-> FALSE, rows |-> <<>>]
    /\ sink = EmptyBag
    /\ runs = 0
    /\ outcome = "none"
    /\ pc = "stopped"
    /\ df = <<>>
    /\ idx = 0
    /\ epoch = 0
    /\ success = FALSE
    /\ meta = {}
    /\ rename_files = FALSE
    /\ conn = "none"
    /\ txn = EmptyBag
    /\ attempt = 0
    /\ ret = "none"
    /\ chunk_number = 0
    /\ total_events = 0
    /\ abs_times = <<>>
    /\ submitted = <<>>
    /\ CollectorsOff
    /\ \E c \in ThresholdConfigs \cup FiducialConfigs :
         /\ PSD_THRESHOLDS = c.th
         /\ fiducial = c.fid
         /\ channel_input = c.ch
         /\ txt_files \in (IF c \in ThresholdConfigs THEN TxtChoices ELSE {TxtGood})
    /\ observed = Unread
    /\ BesideOff

\* main() ends
TsHalt(how) ==
    /\ pc' = "stopped"
    /\ outcome' = how
    /\ df' = <<>>
    /\ idx' = 0
    /\ epoch' = 0
    /\ success' = FALSE

\* main() up to its loop: the ledger is read from the CSV, or made from the
\* glob of the RAW folder and written
TsMain ==
    /\ pc = "stopped"
    /\ runs < MaxRuns
    /\ runs' = runs + 1
    /\ UNCHANGED <<env, csv, sink, unused, collectors, timestamps, beside>>
    /\ IF csv.exists
       THEN /\ df' = ReadCsv(csv.rows)
            /\ pc' = "loop"
            /\ idx' = 1
            /\ outcome' = "running"
            /\ epoch' = Unresolved
            /\ success' = FALSE
       ELSE IF Enumerate("3") = <<>>
            THEN TsHalt("returned")
            ELSE /\ df' = NewLedger(Enumerate("3"))
                 /\ pc' = "to_csv"
                 /\ idx' = 0
                 /\ outcome' = "running"
                 /\ epoch' = Unresolved
                 /\ success' = FALSE

\* for index, row in df.iterrows(): the rows that need no processing
TsLoop ==
    /\ pc = "loop"
    /\ UNCHANGED <<env, csv, sink, runs, unused, collectors, timestamps, beside>>
    /\ IF idx > Len(df)
       THEN TsHalt("returned")
       ELSE /\ UNCHANGED <<outcome, epoch, success>>
            /\ IF ~NotProcessed(df[idx].processed)
               THEN pc' = "loop" /\ idx' = idx + 1 /\ df' = df
               ELSE IF Exists(df[idx].filename)
                    THEN pc' = "process" /\ idx' = idx /\ df' = df
                    ELSE /\ pc' = "to_csv"
                         /\ idx' = idx
                         /\ df' = [df EXCEPT ![idx].processed = "bTrue"]

\* process_root_file(file_path, ...) and what main() does with its result.
\* The fiducial parameter files are absent: the PSD threshold decides.
TsProcess ==
    /\ pc = "process"
    /\ UNCHANGED <<env, csv, runs, outcome, unused, collectors, timestamps, beside>>
    /\ LET f == CurFile
           start == get_acquisition_start_from_txt(txt_files)
       IN  \E fail \in {"none", "connect", "neutrons", "gammas"} :
             LET ok == start # Unresolved /\ Tree(f) # <<>> /\ fail = "none"
             IN  /\ epoch' = IF start = Unresolved THEN epoch ELSE start
                 /\ sink' = IF start = Unresolved \/ Tree(f) = <<>>
                               \/ fail \in {"connect", "neutrons"}
                            THEN sink
                            ELSE sink
                                 (+) SetToBag(neutron_rows(f, start, PSD_THRESHOLDS))
                                 (+) (IF fail = "gammas" THEN EmptyBag
                                      ELSE SetToBag(gamma_rows(f, start,
                                                               PSD_THRESHOLDS)))
                 /\ success' = ok
                 /\ IF ok
                    THEN /\ df' = [df EXCEPT ![idx].processed = "bTrue"]
                         /\ pc' = "to_csv"
                         /\ idx' = idx
                    ELSE /\ df' = df
                         /\ pc' = "loop"
                         /\ idx' = idx + 1

\* df.to_csv(csv_path, index=False), first half: open(csv_path, 'w')
\* truncates the file
ToCsvOpen ==
    /\ pc = "to_csv"
    /\ csv' = [exists |-> TRUE, rows |-> <<>>]
    /\ pc' = "write"
    /\ UNCHANGED <<env, sink, runs, outcome, df, idx, epoch, success, unused,
                   collectors, timestamps, beside>>

\* second half: the rows reach the file, all at the close or some of them at
\* an earlier flush of the buffer
ToCsvWrite ==
    /\ pc = "write"
    /\ \E n \in (Len(csv.rows) + 1)..Len(df) :
         /\ csv' = [exists |-> TRUE, rows |-> SubSeq(Saved(df), 1, n)]
         /\ IF n = Len(df)
            THEN pc' = "loop" /\ idx' = idx + 1
            ELSE UNCHANGED <<pc, idx>>
    /\ UNCHANGED <<env, sink, runs, outcome, df, epoch, success, unused,
                   collectors, timestamps, beside>>

\* an operator's process reads processed_files.csv
Reader ==
    /\ csv.exists
    /\ observed' = [read |-> TRUE, rows |-> csv.rows]
    /\ UNCHANGED <<vars, collectors, beside, txt_files, PSD_THRESHOLDS, fiducial,
                   channel_input>>

\* the .txt files of the run folder change
Retxt ==
    /\ \E c \in TxtChanges : txt_files = c[1] /\ txt_files' = c[2]
    /\ UNCHANGED <<vars, collectors, beside, PSD_THRESHOLDS, observed, fiducial,
                   channel_input>>

NextTs ==
    \/ TsMain
    \/ TsLoop
    \/ TsProcess
    \/ ToCsvOpen
    \/ ToCsvWrite
    \/ Reader
    \/ Retxt

SpecTs == InitTs /\ [][NextTs]_allvars

\* ============================================ caen-rootprocessing.py
\* The folder watcher: the watchdog observer calls on_modified, one call at a
\* time, for every modification event of the DAQ folder.  It uses disk,
\* layout, sink and epoch as main() above does, outcome for what the latest
\* call did, and the thresholds, the fiducial files and the channel of the
\* file names as caen-roottimestamps.py does.
MaxPartial == 1   \* failed calls per file that leave rows behind

\* estimate_acquisition_start: the modification time of the earliest file
\* less the time its events span
EstimateChoices == SettingsMtimes

\* neutron_abs_times = dfn["Timestamp"] + acquisition_start_timestamp: every
\* row of dfn gets a row in the neutron timestamps table
neutron_abs_times(f, start, th) ==
    {TsRow("neutron", f, i, start) :
        i \in {j \in DOMAIN Tree(f) : Neutron(Tree(f)[j], th.psd)}}
\* gamma_abs_times = dfg["Timestamp"] + acquisition_start_timestamp
gamma_abs_times(f, start, th) ==
    {TsRow("gamma", f, i, start) :
        i \in {j \in DOMAIN Tree(f) : Gamma(Tree(f)[j], th.psd)}}

InitWatch ==
    /\ disk = [f \in Files |-> "orig"]
    /\ layout \in Layouts
    /\ settings = NoSettings
    /\ csv = [exists |-> FALSE, rows |-> <<>>]
    /\ sink = EmptyBag
    /\ runs = 0
    /\ outcome = "none"
    /\ pc = "stopped"
    /\ df = <<>>
    /\ idx = 0
    /\ epoch = 0
    /\ success = FALSE
    /\ meta = {}
    /\ rename_files = FALSE
    /\ conn = "none"
    /\ txn = EmptyBag
    /\ attempt = 0
    /\ ret = "none"
    /\ chunk_number = 0
    /\ total_events = 0
    /\ abs_times = <<>>
    /\ submitted = <<>>
    /\ CollectorsOff
    /\ txt_files = <<>>
    /\ observed = <<>>
    /\ \E c \in ThresholdConfigs \cup FiducialConfigs :
         /\ PSD_THRESHOLDS = c.th
         /\ fiducial = c.fid
         /\ channel_input = c.ch
    /\ processed_files = {}
    /\ returned = [f \in Files |-> 0]
    /\ table_name = <<>>

\* mutant: the dictionary is not looked at
NeverProcessed(f) == FALSE
\* if file_path in processed_files
AlreadyProcessed(f) == f \in processed_files

\* rows of file f in the tables
RowsOfFile(f) == {r \in DOMAIN sink : r.src[1] = f}

\* on_modified(event) for the path of file f with its .root name, with the
\* call of process_root_file and the rename.  The rows are inserted and
\* committed one by one, the neutrons first: a call that fails leaves behind
\* what it had inserted.
on_modified ==
    /\ UNCHANGED <<layout, settings, csv, runs, pc, df, idx, success, unused,
                   collectors, timestamps, table_name>>
    /\ \E f \in Files :
         IF AlreadyProcessed(f)
         THEN /\ outcome' = "skipped"
              /\ UNCHANGED <<disk, sink, epoch, processed_files, returned>>
         ELSE \E how \in {"not ready", "no start", "gammas", "history", "ok"},
                 start \in EstimateChoices, renamed \in BOOLEAN :
                LET th == PSD_THRESHOLDS
                    neutrons == SetToBag(neutron_abs_times(f, start, th))
                    gammas == SetToBag(gamma_abs_times(f, start, th))
                    ready == disk[f] = "orig"
                    ok == ready /\ Tree(f) # <<>> /\ how = "ok"
                    inserting == ready /\ Tree(f) # <<>>
                                       /\ how \in {"gammas", "history", "ok"}
                IN  /\ how \in {"gammas", "history"} =>
                          Cardinality(RowsOfFile(f)) < MaxPartial
                    /\ epoch' = IF ready /\ how # "not ready" /\ how # "no start"
                                THEN start ELSE epoch
                    /\ sink' = IF ~inserting THEN sink
                               ELSE IF how = "gammas" THEN sink (+) neutrons
                               ELSE sink (+) neutrons (+) gammas
                    /\ IF ok
                       THEN /\ outcome' = "processed"
                            /\ processed_files' = processed_files \cup {f}
                            /\ returned' = [returned EXCEPT ![f] = @ + 1]
                            /\ disk' = IF renamed
                                       THEN [disk EXCEPT ![f] = "renamed"]
                                       ELSE disk   \* os.rename raised
                       ELSE /\ outcome' = "failed"
                            /\ UNCHANGED <<disk, processed_files, returned>>

\* the DAQ or the operator removes a file
WatchVanish ==
    /\ \E f \in Files :
         /\ disk[f] = "orig"
         /\ Cardinality({g \in Files : disk[g] = "gone"}) < MaxVanish
         /\ disk' = [disk EXCEPT ![f] = "gone"]
    /\ UNCHANGED <<layout, settings, store, runs, outcome, pc, proc, others>>

NextWatch ==
    \/ on_modified
    \/ WatchVanish

SpecWatch == InitWatch /\ [][NextWatch]_allvars

\* --------------------- caen-rootpostprocessing.py: the table of a file
MaxDigits == 2         \* digits of the channel number the operator types

\* the strings of n digits
RECURSIVE DigitStrings(_)
DigitStrings(n) ==
    IF n = 0 THEN {<<>>}
    ELSE {Append(s, d) : s \in DigitStrings(n - 1), d \in 0..9}

\* a channel the prompt accepts: ch.isdigit()
Channels == UNION {DigitStrings(n) : n \in 1..MaxDigits}

table_prefix == TextTok
\* f"{table_prefix}_ch{channel_number}"
get_table_name_from_channel(channel_number, prefix) ==
    <<prefix, Tok("_ch", <<>>)>>
        \o [i \in DOMAIN channel_number |-> Digit(channel_number[i])]

InitCh ==
    /\ disk = [f \in Files |-> "orig"]
    /\ layout = "data"
    /\ settings = NoSettings
    /\ csv = [exists |-> FALSE, rows |-> <<>>]
    /\ sink = EmptyBag
    /\ runs = 0
    /\ outcome = "none"
    /\ pc = "stopped"
    /\ df = <<>>
    /\ idx = 0
    /\ epoch = 0
    /\ success = FALSE
    /\ meta = {}
    /\ rename_files = FALSE
    /\ conn = "none"
    /\ txn = EmptyBag
    /\ attempt = 0
    /\ ret = "none"
    /\ chunk_number = 0
    /\ total_events = 0
    /\ abs_times = <<>>
    /\ submitted = <<>>
    /\ CollectorsOff
    /\ txt_files = <<>>
    /\ PSD_THRESHOLDS = <<>>
    /\ observed = <<>>
    /\ fiducial = <<>>
    /\ channel_input \in Channels
    /\ processed_files = {}
    /\ returned = <<>>
    /\ table_name = <<>>

\* main() for a file the glob *_CH{ch}@*.root* found:
\* channel_number = get_channel_number_from_filename(file_path), and
\* process_root_file's table_name = get_table_name_from_channel(...)
NameTable ==
    /\ table_name = <<>>
    /\ table_name' = get_table_name_from_channel(
                         get_channel_number_from_filename(FilePath(channel_input)),
                         table_prefix)
    /\ UNCHANGED <<vars, collectors, timestamps, processed_files, returned>>

NextCh == NameTable

SpecCh == InitCh /\ [][NextCh]_allvars

\* ====================================================== the claims
RowSeconds(r) == r.time \div MicrosPerSecond
RowEvent(r) == content(r.src[1])[r.src[2]][r.src[3]]
InFlight == pc \in {"heartbeat", "exists", "open", "iterate", "result", "meta"}
Persisted(i) == csv.rows[i].processed

\* C1: the (seconds, ps) pair stored for an event is the exact integer
\* div/mod of epoch + relative timestamp: seconds * TicksPerSecond + ps equals
\* the epoch (in ticks) plus the event's relative timestamp, with no rounding.
C1_ExactReconstruction ==
    \A i \in DOMAIN submitted :
        (RowSeconds(submitted[i]) * TicksPerSecond + submitted[i].ps) * Scale
            = epoch * TicksPerSecond + RowEvent(submitted[i]).ts * Scale

\* C2: every row handed to the sink, committed or not, has 0 <= ps < one
\* second of ticks.
C2_PsInRange ==
    /\ \A r \in DOMAIN sink : 0 <= r.ps /\ r.ps < TicksPerSecond
    /\ \A r \in DOMAIN txn : 0 <= r.ps /\ r.ps < TicksPerSecond
    /\ \A i \in DOMAIN submitted :
           0 <= submitted[i].ps /\ submitted[i].ps < TicksPerSecond

C2_Witness ==
    \E r \in DOMAIN sink : r.ps > 0 /\ RowEvent(r).ts > TicksPerSecond

\* C3: a persisted ledger state changes only from Pending, to Done when the
\* processing attempt succeeded and to Failed when it returned an error; a
\* newly created ledger holds only Pending entries.
C3_LedgerTransitions ==
    [][/\ (~csv.exists /\ csv'.exists) =>
              \A i \in DOMAIN csv'.rows : csv'.rows[i].processed = "False"
       /\ (csv.exists /\ csv'.exists) =>
              \A i \in DOMAIN csv.rows :
                  csv'.rows[i].processed # csv.rows[i].processed =>
                      /\ csv.rows[i].processed = "False"
                      /\ \/ csv'.rows[i].processed = "True" /\ success
                         \/ csv'.rows[i].processed = "Failed" /\ ~success]_vars

\* C4: a Pending file that no longer exists when its turn comes is marked
\* Failed.
C4_VanishedIsFailed ==
    [][(pc = "exists" /\ pc' = "save") =>
           CellToCsv(df'[idx].processed) = "Failed"]_vars

C6_PendingAttempted ==
    (pc = "stopped" /\ outcome = "returned" /\ csv.exists) =>
        \A i \in DOMAIN csv.rows : Persisted(i) # "False"

C8_FileFailureDoesNotAbort ==
    [][((pc \in {"open", "iterate", "result"} \/ (pc = "heartbeat" /\ conn = "aborted"))
          /\ pc' = "stopped") => outcome' = "crash"]_vars

\* C9: no event is committed to the sink more than once, and every event of
\* a file recorded as Done is committed.
EventsOf(f) ==
    UNION {{<<f, c, k>> : k \in DOMAIN content(f)[c]} : c \in DOMAIN content(f)}
Copies(s) == BagCardinality([r \in {q \in DOMAIN sink : q.src = s} |-> sink[r]])

C9_ExactlyOnce ==
    /\ \A f \in Files : \A s \in EventsOf(f) : Copies(s) <= 1
    /\ csv.exists =>
           \A i \in DOMAIN csv.rows :
               Persisted(i) = "True" =>
                   \A s \in EventsOf(csv.rows[i].filename.f) : Copies(s) = 1

\* C10: in one pass over a file the rows submitted for insertion are the
\* events read so far, each exactly once and in order, whatever the split
\* into chunks and batches; total_events counts them.
RECURSIVE EventsUpTo(_, _)
EventsUpTo(f, c) ==
    IF c = 0 THEN <<>>
    ELSE EventsUpTo(f, c - 1) \o [k \in DOMAIN content(f)[c] |-> <<f, c, k>>]

C10_EachEventOnce ==
    (pc = "iterate" \/ (pc = "result" /\ success)) =>
        /\ [i \in DOMAIN submitted |-> submitted[i].src]
               = EventsUpTo(CurFile, chunk_number)
        /\ total_events = Len(submitted)

C10_Witness ==
    /\ pc = "result"
    /\ success
    /\ Len(content(CurFile)) = 2
    /\ Len(submitted) = 4

\* C11: the start_time and end_time that process_root_file returns for a
\* successfully processed file are the minimum and the maximum absolute event
\* time over the events of all the chunks of the file.
FileAbsTimes(f) ==
    {AbsTime(content(f)[s[2]][s[3]].ts, epoch) : s \in EventsOf(f)}
SetMin(S) == CHOOSE x \in S : \A y \in S : x <= y
SetMax(S) == CHOOSE x \in S : \A y \in S : x >= y
C11_WholeFileSpan ==
    (pc = "result" /\ success) =>
        /\ start_time_str = Strftime(SetMin(FileAbsTimes(CurFile)))
        /\ end_time_str = Strftime(SetMax(FileAbsTimes(CurFile)))

\* C12: a file whose processing failed only because the connection to the
\* database was lost is not recorded as Failed: the save that follows the
\* loss leaves its persisted state Pending.
C12_LostConnectionKeepsPending ==
    [][(pc = "save" /\ conn = "lost" /\ pc' = "loop") =>
           csv'.rows[idx].processed = "False"]_vars

\* C13: while a file is in flight, three consecutive failures to reach the
\* database do not end the run: a fourth attempt is made (and its success
\* lets the file become Done).
C13_FourthAttempt ==
    [][(pc = "connect" /\ ret = "exists" /\ attempt + 1 = 3) =>
           outcome' # "exit"]_vars

\* C14: a sequence of connection attempts terminates.  Every pass of
\* connect_to_db either returns the connection to the caller, or counts one
\* more failure below max_retries, or, on the failure of attempt number
\* max_retries, ends the run; none of them changes the persisted ledger, and
\* the file in flight during a reconnect is persisted as Pending.
C14_AttemptsBounded ==
    [][(pc = "connect" /\ disk' = disk) =>
           /\ csv' = csv
           /\ ret = "exists" => csv'.rows[idx].processed = "False"
           /\ \/ UNCHANGED vars
              \/ pc' = ret /\ conn' = "ok"
              \/ /\ pc' = "connect"
                 /\ conn' # "ok"
                 /\ attempt' = attempt + 1
                 /\ attempt' < max_retries
              \/ pc' = "stopped" /\ outcome' = "crash"
              \/ /\ pc' = "stopped"
                 /\ outcome' = "exit"
                 /\ attempt + 1 = max_retries]_vars
C14_Witness ==
    /\ pc = "connect"
    /\ ret = "exists"
    /\ attempt + 1 = max_retries
    /\ idx = 2
    /\ Persisted(1) = "True"
    /\ Persisted(2) = "False"

\* C15: no collector stops logging for good: if from some time on the
\* database stays reachable, every collector logs a sample again and again.
C15_CollectorsRecover ==
    \A c \in Collectors : <>[](server = "up") => []<>wrote[c]

\* C16: what an operator's process reads from the ledger file while a run is
\* working through the files is the complete ledger as it was before the
\* update in progress or the complete ledger after it.
Before(d) == IF idx \in DOMAIN d THEN [d EXCEPT ![idx].processed = "bFalse"] ELSE d
C16_NoTornRead ==
    [][(observed' # observed /\ pc # "stopped" /\ idx >= 1) =>
           observed'.rows \in {Saved(df), Saved(Before(df))}]_allvars

\* C17: within a run, every file is reconstructed with the same acquisition
\* start: once a start has been resolved, the start resolved for a later
\* file of the run is the same value, whatever happened to the folder.
C17_EpochResolvedOnce ==
    [][(pc # "stopped" /\ pc' # "stopped"
          /\ epoch # Unresolved /\ epoch' # Unresolved) => epoch' = epoch]_allvars

\* C18: the acquisition start a file is processed with is the result of the
\* first policy that succeeds, the 'Start time' line before the modification
\* time of the settings file: when one of the two succeeds, the file is not
\* left without a start.
FirstSuccess ==
    IF get_acquisition_start_from_txt(txt_files) # Unresolved
    THEN get_acquisition_start_from_txt(txt_files)
    ELSE settings
C18_PolicyOrder ==
    [][(pc = "process" /\ pc' # "process" /\ FirstSuccess # Unresolved) =>
           epoch' = FirstSuccess]_allvars

\* C19: with the line 'Start time = Tue Feb 25 19:54:42 2025' (second 42 of
\* the model's clock) an event with relative timestamp 0 is stored with that
\* second and ps = 0; and a file is processed only if the second line of
\* the .txt file is exactly 'Start time = ' followed by a date in the format.
ExactFormat(files) ==
    /\ files # <<>>
    /\ Len(files[1]) >= 2
    /\ StartsWith(files[1][2])
    /\ Parses(Tail(files[1][2]))
C19_StartTimeLine ==
    [][(pc = "process" /\ pc' = "to_csv") =>
           /\ ExactFormat(txt_files)
           /\ txt_files = TxtGood =>
                \A r \in DOMAIN (sink' (-) sink) :
                    Tree(r.src[1])[r.src[2]].ts = 0 => r.time = 42 /\ r.ps = 0]_allvars

\* C20: under the threshold policy an event with a defined discriminant is a
\* neutron if its discriminant is above psd_threshold and a gamma otherwise
\* (a discriminant equal to the threshold is a gamma): a processed file has
\* one gamma row for each of its gammas and no neutron row for them, and no
\* gamma row for its neutrons.
RowsOf(bag, particle_type, f, i) ==
    {r \in DOMAIN bag : r.table = particle_type /\ r.src = <<f, i>>}
C20_ThresholdPolicy ==
    [][(pc = "process" /\ pc' = "to_csv") =>
           \A i \in DOMAIN Tree(CurFile) :
               LET ev == Tree(CurFile)[i]
                   new == sink' (-) sink
               IN  ev.e # 0 =>
                     IF PSP(ev) > PSD_THRESHOLDS.psd
                     THEN RowsOf(new, "gamma", CurFile, i) = {}
                     ELSE /\ RowsOf(new, "neutron", CurFile, i) = {}
                          /\ RowsOf(new, "gamma", CurFile, i) # {}]_allvars

TablesHold(c) ==
    /\ fiducial.gammas.exists
    /\ fiducial.neutrons.exists
    /\ c \in DOMAIN fiducial.gammas.params
    /\ c \in DOMAIN fiducial.neutrons.params
C22_PolicyByChannel ==
    [][(pc = "process" /\ pc' = "to_csv") =>
           LET c == ToInt(channel_input)
               new == sink' (-) sink
           IN  \A i \in DOMAIN Tree(CurFile) :
                 LET ev == Tree(CurFile)[i]
                     d == PSP(ev)
                     neutron ==
                         IF TablesHold(c)
                         THEN /\ Gt(d, fiducial_curve(ev.e, fiducial.gammas.params[c]))
                              /\ Lt(d, fiducial_curve(ev.e, fiducial.neutrons.params[c]))
                         ELSE Gt(d, PSD_THRESHOLDS.psd)
                     gamma ==
                         IF TablesHold(c)
                         THEN Lt(d, fiducial_curve(ev.e, fiducial.gammas.params[c]))
                         ELSE Lt(d, PSD_THRESHOLDS.psd)
                 IN  /\ (RowsOf(new, "gamma", CurFile, i) # {}) = gamma
                     /\ (RowsOf(new, "neutron", CurFile, i) # {})
                            = (neutron /\ ev.e >= PSD_THRESHOLDS.energy)]_allvars

\* C23: no row of a neutron table belongs to an event with Energy below the
\* energy threshold, and an event that passes the neutron test has no gamma
\* row either.
C23_EnergyGate ==
    \A r \in DOMAIN sink :
        LET ev == Tree(r.src[1])[r.src[2]]
        IN  /\ r.table = "neutron" => ev.e >= PSD_THRESHOLDS.energy
            /\ r.table = "gamma" => ~Neutron(ev, PSD_THRESHOLDS.psd)

\* C30: in the folder watcher process_root_file returns True at most once for
\* a path; a path is in the dictionary exactly when it has returned True, so
\* a path that failed stays eligible; a path has its processed name only
\* after it returned True; and no step adds or removes a row of a path that
\* has returned True (a later event for it is skipped).
OnceAndMarked ==
    \A f \in Files :
        /\ returned[f] <= 1
        /\ (f \in processed_files) = (returned[f] = 1)
        /\ disk[f] = "renamed" => returned[f] = 1
C30_ProcessedOnce ==
    /\ []OnceAndMarked
    /\ [][\A f \in Files :
            returned[f] = 1
               => /\ returned'[f] = 1
                  /\ RowsOfFile(f) = {r \in DOMAIN sink' : r.src[1] = f}
                  /\ \A r \in RowsOfFile(f) : sink'[r] = sink[r]]_allvars
\* a file was processed and its rename failed, the event that followed was
\* skipped, and the other file failed with rows left behind
C30_Witness ==
    /\ outcome = "skipped"
    /\ \E f \in Files : returned[f] = 1 /\ disk[f] = "orig" /\ RowsOfFile(f) # {}
    /\ \E f \in Files : returned[f] = 0 /\ RowsOfFile(f) # {}

\* C24: an event with Energy 0 is sorted by the sentinel discriminant that
\* caen-rootpostprocessing.py stores for it (Psp, 0.0), in every script: under
\* the threshold policy a processed file has, for each such event, the rows
\* that discriminant gives.
C24_ZeroEnergy ==
    [][(pc = "process" /\ pc' = "to_csv" /\ ~use_fiducial_curves) =>
           \A i \in DOMAIN Tree(CurFile) :
               LET ev == Tree(CurFile)[i]
                   new == sink' (-) sink
                   d == Psp(ev.e, ev.es)
               IN  ev.e = 0 =>
                     /\ (RowsOf(new, "gamma", CurFile, i) # {})
                            = (d < PSD_THRESHOLDS.psd)
                     /\ (RowsOf(new, "neutron", CurFile, i) # {})
                            = (d > PSD_THRESHOLDS.psd
                                 /\ ev.e >= PSD_THRESHOLDS.energy)]_allvars

\* C25: the summary printed when main() ends lists as unprocessed exactly the
\* files the ledger file holds as False and as failed exactly those it holds
\* as Failed.
\* df = pd.read_csv(csv_path); df[df['processed'] == False]
unprocessed_files(rows) ==
    {i \in DOMAIN rows : EqFalse(ReadCsv(rows)[i].processed)}
\* df[df['processed'] == 'Failed']
failed_files(rows) ==
    {i \in DOMAIN rows : ReadCsv(rows)[i].processed = "sFailed"}
C25_SummaryLists ==
    [][(pc \in {"loop", "heartbeat", "exists", "result", "meta"}
          /\ pc' = "stopped" /\ outcome' \in {"returned", "exit", "raised"}) =>
           /\ unprocessed_files(csv'.rows)
                 = {i \in DOMAIN csv'.rows : csv'.rows[i].processed = "False"}
           /\ failed_files(csv'.rows)
                 = {i \in DOMAIN csv'.rows : csv'.rows[i].processed = "Failed"}]_vars

\* C26: the rows of a chunk are committed all or none: in the sink every
\* event of a chunk has as many rows as every other event of that chunk,
\* whatever failed and whatever was committed later on the connection.
C26_ChunkAllOrNothing ==
    \A f \in Files : \A c \in DOMAIN content(f) :
        \A k1, k2 \in DOMAIN content(f)[c] :
            Copies(<<f, c, k1>>) = Copies(<<f, c, k2>>)
\* the insert of a chunk failed after its first batch was executed: the
\* rows of that batch wait in the aborted transaction, next to the rows an
\* earlier run committed
C26_Witness ==
    /\ pc = "result"
    /\ conn = "aborted"
    /\ BagCardinality(txn) = BatchSize
    /\ runs = 2
    /\ sink # EmptyBag

\* C27: an event whose Timestamp is negative is rejected on its own: the
\* sink never holds a row built from it (the other events of the file are
\* written as usual).
C27_NegativeRejected ==
    \A f \in Files : \A c \in DOMAIN content(f) :
        \A k \in DOMAIN content(f)[c] :
            content(f)[c][k].ts < 0 => Copies(<<f, c, k>>) = 0

\* C28: a file is marked Done only after every chunk of it was inserted and
\* committed: whenever the ledger file records as Done a file that was there
\* when its turn came (it is still in the folder under the recorded name, or
\* its metadata row exists), every event of the file has a committed row;
\* this holds in the states a crash leaves behind as well.
C28_DoneAfterCommit ==
    csv.exists =>
        \A i \in DOMAIN csv.rows :
            (/\ Persisted(i) = "True"
             /\ Exists(csv.rows[i].filename) \/ csv.rows[i].filename \in meta)
            => \A s \in EventsOf(csv.rows[i].filename.f) : Copies(s) >= 1

\* a run was killed after the file of two chunks had been recorded as Done
C28_Witness ==
    /\ layout = "data"
    /\ outcome = "crash"
    /\ csv.exists
    /\ Persisted(1) = "True"
    /\ csv.rows[1].filename \in meta
    /\ Len(content(1)) = 2

\* C29: the rows of a file go to the table {prefix}_ch{c} of the channel c
\* the file was enumerated for, whatever digit string the operator typed,
\* numbers of two or more digits included.
C29_TableOfChannel ==
    table_name # <<>> =>
        table_name = get_table_name_from_channel(channel_input, table_prefix)

====
